---------------------------- MODULE Spec2Model ----------------------------
(***************************************************************************)
(* NotePerfect control-voltage quantizer (main.c): the control loop of     *)
(* main() as a state machine.  One step of the model is one iteration of   *)
(* while(1): CapSense scan, ADC read, moving-average filter with slope     *)
(* reset, conversion to millivolts, step quantizer, output update and      *)
(* correction detector.                                                    *)
(*                                                                         *)
(* C arithmetic is the ARM GCC build's: int and long are 32 bits, the      *)
(* conversion to a narrower signed type wraps modulo 2^16, >> of a signed  *)
(* value is arithmetic, and an int32 operand meeting an unsigned int       *)
(* operand is converted to unsigned 32 bits.                               *)
(***************************************************************************)
EXTENDS Integers, Sequences, FiniteSets, TLC

(* ------------------------------------------------------------------ *)
(* Program constants (#define lines of main.c)                         *)
(* ------------------------------------------------------------------ *)
IN_B == 0
IN_A == 1
MAX_SAMPLE == 128
SIGNAL_SLOPE == 1000
DIV == 7
NUMBER_NOTES_PER_VOLT == 12
MAX_CONTROL_VOLTAGE == 5
NUMBER_NOTE_PERFECT_STEPS == NUMBER_NOTES_PER_VOLT * MAX_CONTROL_VOLTAGE
NOTEPERFECT_STEP_SIZE_MV == (MAX_CONTROL_VOLTAGE * 1000) \div NUMBER_NOTE_PERFECT_STEPS
CORRECTION_WINDOW == NOTEPERFECT_STEP_SIZE_MV \div 4
ON == 1
OFF == 0

(* variant: a table of exact multiples of the integer step size *)
PWM_Lookup_exact == [k \in 1 .. 61 |-> (k - 1) * NOTEPERFECT_STEP_SIZE_MV]

(* The initializer of uint16_t PWM_Lookup[] (61 entries, indices 0..60). *)
PWM_Lookup_init ==
  <<   0,   83,  167,  250,  333,  417,  500,  583,  667,  750,  833,  917, 1000,
    1083, 1167, 1250, 1333, 1417, 1500, 1583, 1667, 1750, 1833, 1917, 2000,
    2083, 2167, 2250, 2333, 2417, 2500, 2583, 2667, 2750, 2833, 2917, 3000,
    3083, 3167, 3250, 3333, 3417, 3500, 3583, 3667, 3750, 3833, 3917, 4000,
    4083, 4167, 4250, 4333, 4417, 4500, 4583, 4667, 4750, 4833, 4917, 5000 >>

(* The array as C indexes it: element i of the initializer is PWM_Lookup[i]. *)
TableOf(init) == [i \in 0 .. (Len(init) - 1) |-> init[i + 1]]

(* ------------------------------------------------------------------ *)
(* Bounds of the model                                                 *)
(* ------------------------------------------------------------------ *)
\* loop iterations explored with every input free (specification Spec)
MaxTicks == 3
\* free samples at the start and at the end of a long run (SpecLong)
MaxFree == 2
\* loop iterations of a constant-input run beyond one buffer length (SpecHold)
MaxHoldExtra == 3
\* loop iterations over the corners of the ADC range (SpecRange)
MaxRangeTicks == 3
\* loop iterations of the quantizer sweep (SpecQ)
MaxQTicks == 1
\* the sweep covers filtered voltages -QMvBelow .. QMvMax millivolts
QMvBelow == 3
QMvMax == 5030

(* ------------------------------------------------------------------ *)
(* C integer arithmetic                                                *)
(*                                                                     *)
(* An int32 is an integer of the model.  The int32 values of the loop  *)
(* are 20-bit ADC codes, sums of 128 of them and millivolts.  A uint32 *)
(* is kept as its two 16-bit halves, value = hi * 65536 + lo.          *)
(* ------------------------------------------------------------------ *)
\* conversion of an int to a 16-bit signed type (GCC: modulo 2^16)
ToInt16(x) == LET u == x % 65536
              IN  IF u >= 32768 THEN u - 65536 ELSE u

\* conversion of an int32 to unsigned 32 bits (modulo 2^32)
ToUint32(x) == [hi |-> (x \div 65536) % 65536, lo |-> x % 65536]

\* u / k and u % k on a uint32 u, for a divisor 2 <= k < 32768
U32Div(u, k) == ((u.hi \div k) * 65536) + ((((u.hi % k) * 65536) + u.lo) \div k)
U32Mod(u, k) == (((u.hi % k) * 65536) + u.lo) % k

\* a < b and a > b on two uint32
U32Less(a, b) == a.hi < b.hi \/ (a.hi = b.hi /\ a.lo < b.lo)
U32Greater(a, b) == U32Less(b, a)

\* abs() of <stdlib.h> on an int
abs(x) == IF x < 0 THEN 0 - x ELSE x

\* x / y of C on signed operands, y > 0: truncation toward zero
CDiv(x, y) == IF x >= 0 THEN x \div y ELSE 0 - ((0 - x) \div y)

\* x << n and x >> n on an int32 (GCC: two's complement, arithmetic shift)
ShiftLeft(x, n) == x * (2 ^ n)
ShiftRight(x, n) == x \div (2 ^ n)

(* ------------------------------------------------------------------ *)
(* State                                                               *)
(* ------------------------------------------------------------------ *)
VARIABLES
  \* locals of main() and the global table
  adcCounts, result, sum, diff, milliVolts, averageCounts, index,
  notePerfectValue, previousNotePerfectValue, remainder,
  previousButton0, previousButton1, inputChannel, PWM_Lookup,
  \* the peripherals the loop drives: analog mux, the four PWMs, the LCD fields
  muxChannel, pwmCompare, redCompare, greenCompare, blueCompare,
  redRunning, greenRunning, blueRunning, lcdDac, lcdStep, lcdMilliVolts,
  \* position of the program: loop iterations completed, stopped in a fault
  ticks, halted,
  \* what the last iteration did: filter branch taken, table indices read,
  \* outcome of the correction test, whether PWM_WriteCompare was called
  branch, lookups, correction, primaryWritten,
  \* more of what the last iteration did: the value sum held between lines 305
  \* and 306, the values written to the red and green compare registers, and
  \* what the correction branch did to the blue PWM ("write", "stop", or
  \* "none" when the branch was not reached)
  sumEvicted, indicatorWrites, blueAction,
  \* reference filter: the last MAX_SAMPLE accepted samples, oldest first
  window

vars == << adcCounts, result, sum, diff, milliVolts, averageCounts, index,
           notePerfectValue, previousNotePerfectValue, remainder,
           previousButton0, previousButton1, inputChannel, PWM_Lookup,
           muxChannel, pwmCompare, redCompare, greenCompare, blueCompare,
           redRunning, greenRunning, blueRunning, lcdDac, lcdStep, lcdMilliVolts,
           ticks, halted, branch, lookups, correction, primaryWritten,
           sumEvicted, indicatorWrites, blueAction, window >>

\* a compare register or LCD field the program has not written yet
UNWRITTEN == 0 - 1

(* ------------------------------------------------------------------ *)
(* Unit converter (generated ADC component, outside src/)              *)
(* ------------------------------------------------------------------ *)
\* calibration of the converter: ADC counts per volt
ADC_COUNTS_PER_VOLT == 100000

\* ADC_CountsTo_mVolts(): a pure linear scaling of counts to millivolts
ADC_CountsTo_mVolts(counts) == CDiv(counts * 1000, ADC_COUNTS_PER_VOLT)

(* ------------------------------------------------------------------ *)
(* Adaptive moving-average filter                                      *)
(* ------------------------------------------------------------------ *)
\* diff = abs(averageCounts - result), stored in an int16
SlopeDiff(avg, r) == ToInt16(abs(avg - r))

\* variant: the threshold itself already resets the filter
SlopeExceededOrEqual(d) == d >= SIGNAL_SLOPE

\* if(diff > SIGNAL_SLOPE)
SlopeExceeded(d) == d > SIGNAL_SLOPE

\* for(i = 0; i < MAX_SAMPLE; i++) adcCounts[i] = result;
FillBuffer(r) == [i \in 0 .. (MAX_SAMPLE - 1) |-> r]

\* variant: the shift by DIV forgotten when the filter is (re)filled
FillSumNoShift(r) == r

\* sum = result << DIV
FillSum(r) == ShiftLeft(r, DIV)

\* variant: the evicted sample is not subtracted
SlideSumNoEvict(s, old, r) == s + r

\* variant: the evicted sample is added instead of subtracted
EvictSumAdd(s, old) == s + old

\* sum = sum - adcCounts[index];
EvictSum(s, old) == s - old

\* sum = sum - adcCounts[index]; sum = sum + result;
SlideSum(s, old, r) == EvictSum(s, old) + r

\* averageCounts = sum >> DIV
Average(s) == ShiftRight(s, DIV)

\* variant: the cursor is never wrapped
NextIndexNoWrap(i) == (i + 1) % 256

\* variant: the cursor wraps one slot early
NextIndexEarly(i) == IF (i + 1) % 256 = MAX_SAMPLE - 1 THEN 0 ELSE (i + 1) % 256

\* index++; if (index == MAX_SAMPLE) index = 0;
NextIndex(i) == IF (i + 1) % 256 = MAX_SAMPLE THEN 0 ELSE (i + 1) % 256

(* ------------------------------------------------------------------ *)
(* Step quantizer                                                      *)
(* ------------------------------------------------------------------ *)
\* milliVolts / NOTEPERFECT_STEP_SIZE_MV: the divisor is unsigned, so the
\* int32 dividend is converted to unsigned 32 bits
StepNumber(mv) == U32Div(ToUint32(mv), NOTEPERFECT_STEP_SIZE_MV)

\* remainder = milliVolts % NOTEPERFECT_STEP_SIZE_MV
Remainder(mv) == U32Mod(ToUint32(mv), NOTEPERFECT_STEP_SIZE_MV)

\* variant: the round-up test against the correction window
RoundUpAtWindow(rem) == rem >= CORRECTION_WINDOW

\* variant: a strict comparison in the round-up test
RoundUpStrict(rem) == rem > NOTEPERFECT_STEP_SIZE_MV \div 2

\* if(remainder >= NOTEPERFECT_STEP_SIZE_MV/2)
RoundUp(rem) == rem >= NOTEPERFECT_STEP_SIZE_MV \div 2

\* variant: round up whenever there is a remainder
QuantizeCeil(mv) ==
  IF Remainder(mv) > 0 THEN StepNumber(mv) + 1 ELSE StepNumber(mv)

\* notePerfectValue after the rounding step
Quantize(mv) ==
  IF RoundUp(Remainder(mv)) THEN StepNumber(mv) + 1 ELSE StepNumber(mv)

(* ------------------------------------------------------------------ *)
(* Table reads                                                         *)
(* ------------------------------------------------------------------ *)
\* PWM_Lookup[n]: inside the array the element; past its end whatever the
\* memory there holds (g)
ReadTable(tbl, n, g) == IF n \in DOMAIN tbl THEN tbl[n] ELSE g

\* values a read past the end of the table may return (any uint16)
OobValues == {0, 4980, 65535}

\* a read so far past the table that the address lies outside the 64 KB of
\* SRAM of the device: the read may raise a bus fault instead of returning
FarRead(tbl, n) == n \notin DOMAIN tbl /\ n >= 32768

(* ------------------------------------------------------------------ *)
(* Indicator mapping and correction detector                           *)
(* ------------------------------------------------------------------ *)
\* if(0 == notePerfectValue) ...PWM_Lookup[1] else ...PWM_Lookup[notePerfectValue]
IndicatorStep(n) == IF n = 0 THEN 1 ELSE n

\* variant: button 0 wins when both buttons are pressed in one scan
SelectInputFirstWins(press0, press1, cur) ==
  IF press0 THEN IN_A ELSE IF press1 THEN IN_B ELSE cur

\* the input source after a scan: button 0 is handled first, button 1 after
\* it, so button 1 wins when both are newly pressed
SelectInput(press0, press1, cur) ==
  IF press1 THEN IN_B ELSE IF press0 THEN IN_A ELSE cur

\* variant: the window test on signed values
CorrectionAppliedSigned(mv, t) ==
  mv > t + CORRECTION_WINDOW \/ mv < t - CORRECTION_WINDOW

\* (uint32_t) milliVolts > PWM_Lookup[n] + CORRECTION_WINDOW ||
\* (uint32_t) milliVolts < PWM_Lookup[n] - CORRECTION_WINDOW, where
\* CORRECTION_WINDOW is unsigned and both sides are unsigned 32 bits
CorrectionApplied(mv, t) ==
  \/ U32Greater(ToUint32(mv), ToUint32(t + CORRECTION_WINDOW))
  \/ U32Less(ToUint32(mv), ToUint32(t - CORRECTION_WINDOW))

\* if(notePerfectValue > 10) ...PWM_Lookup[10] else ...PWM_Lookup[notePerfectValue]
BlueStep(n) == IF n > 10 THEN 10 ELSE n

(* ------------------------------------------------------------------ *)
(* Startup: main() up to while(1), the first ADC reading being c       *)
(* ------------------------------------------------------------------ *)
InitWith(c) ==
  /\ adcCounts = FillBuffer(c)
  /\ result = c
  /\ sum = FillSum(c)
  /\ diff = 0
  /\ milliVolts = 0
  /\ averageCounts = c
  /\ index = 0
  /\ notePerfectValue = 0
  /\ previousNotePerfectValue = 0
  /\ remainder = 0
  /\ previousButton0 = OFF
  /\ previousButton1 = OFF
  /\ inputChannel = IN_A
  /\ PWM_Lookup = TableOf(PWM_Lookup_init)
  /\ muxChannel = IN_A
  /\ pwmCompare = UNWRITTEN
  /\ redCompare = UNWRITTEN
  /\ greenCompare = UNWRITTEN
  /\ blueCompare = UNWRITTEN
  /\ redRunning = TRUE
  /\ greenRunning = FALSE
  /\ blueRunning = FALSE
  /\ lcdDac = UNWRITTEN
  /\ lcdStep = UNWRITTEN
  /\ lcdMilliVolts = UNWRITTEN
  /\ ticks = 0
  /\ halted = FALSE
  /\ branch = "init"
  /\ lookups = {}
  /\ correction = FALSE
  /\ primaryWritten = FALSE
  /\ sumEvicted = FillSum(c)
  /\ indicatorWrites = {}
  /\ blueAction = "none"
  /\ window = [i \in 1 .. MAX_SAMPLE |-> c]

(* ------------------------------------------------------------------ *)
(* One iteration of while(1)                                           *)
(*   busy, b0, b1, b2: CapSense_IsBusy() and the three button widgets  *)
(*   r: the ADC reading; g: what a read past the table returns         *)
(*   fault: the first read of PWM_Lookup in the iteration faults       *)
(* ------------------------------------------------------------------ *)
LoopBody(busy, b0, b1, b2, r, g, fault) ==
  LET \* ---- user interface: CapSense scan (skipped while a scan is busy)
      press0 == (~busy) /\ b0 /\ previousButton0 = OFF
      press1 == (~busy) /\ b1 /\ previousButton1 = OFF
      demo2  == (~busy) /\ b2
      chan   == SelectInput(press0, press1, inputChannel)
      redRun == IF press1 THEN FALSE ELSE IF press0 THEN TRUE ELSE redRunning
      grnRun == IF press1 THEN TRUE ELSE IF press0 THEN FALSE ELSE greenRunning
      redScan  == IF demo2 THEN 0 ELSE redCompare
      grnScan  == IF demo2 THEN 0 ELSE greenCompare
      blueScan == IF demo2 THEN 5000 ELSE blueCompare
      blueRunScan == IF demo2 THEN TRUE ELSE blueRunning
      \* ---- adaptive filter
      d     == SlopeDiff(averageCounts, r)
      reset == SlopeExceeded(d)
      newSum == IF reset THEN FillSum(r) ELSE SlideSum(sum, adcCounts[index], r)
      avg   == IF reset THEN r ELSE Average(newSum)
      \* ---- unit conversion and quantizer
      mv == ADC_CountsTo_mVolts(avg)
      n  == Quantize(mv)
      changed == n # previousNotePerfectValue
      t  == ReadTable(PWM_Lookup, n, g)
      corr == CorrectionApplied(mv, t)
  IN  /\ ~halted
      /\ fault => FarRead(PWM_Lookup, n)
      /\ previousButton0' = IF busy THEN previousButton0 ELSE IF b0 THEN ON ELSE OFF
      /\ previousButton1' = IF busy THEN previousButton1 ELSE IF b1 THEN ON ELSE OFF
      /\ inputChannel' = chan
      /\ muxChannel' = SelectInput(press0, press1, muxChannel)
      /\ redRunning' = redRun
      /\ greenRunning' = grnRun
      /\ result' = r
      /\ diff' = d
      /\ adcCounts' = IF reset THEN FillBuffer(r) ELSE [adcCounts EXCEPT ![index] = r]
      /\ sum' = newSum
      /\ sumEvicted' = IF reset THEN newSum ELSE EvictSum(sum, adcCounts[index])
      /\ averageCounts' = avg
      /\ index' = IF reset THEN 0 ELSE NextIndex(index)
      /\ branch' = IF reset THEN "reset" ELSE "slide"
      /\ window' = IF reset THEN [i \in 1 .. MAX_SAMPLE |-> r]
                            ELSE Append(Tail(window), r)
      /\ milliVolts' = mv
      /\ remainder' = Remainder(mv)
      /\ notePerfectValue' = n
      /\ lookups' = IF fault THEN {n}
                    ELSE {n} \cup (IF changed /\ n = 0 THEN {IndicatorStep(n)} ELSE {})
                             \cup (IF corr /\ n > 10 THEN {BlueStep(n)} ELSE {})
      /\ ticks' = ticks + 1
      /\ halted' = fault
      /\ UNCHANGED PWM_Lookup
      /\ IF fault
           THEN \* the loop stops in the fault handler at the first table read:
                \* line 329 when the step changed, else line 366 after the
                \* millivolt display
                /\ redCompare' = redScan
                /\ greenCompare' = grnScan
                /\ blueCompare' = blueScan
                /\ blueRunning' = blueRunScan
                /\ lcdMilliVolts' = IF changed THEN lcdMilliVolts ELSE mv
                /\ primaryWritten' = FALSE
                /\ indicatorWrites' = IF demo2 THEN {0} ELSE {}
                /\ blueAction' = "none"
                /\ UNCHANGED << pwmCompare, lcdDac, lcdStep, correction,
                                previousNotePerfectValue >>
           ELSE /\ pwmCompare' = IF changed THEN t ELSE pwmCompare
                /\ primaryWritten' = changed
                /\ redCompare' = IF changed /\ chan = IN_A
                                   THEN ReadTable(PWM_Lookup, IndicatorStep(n), g)
                                   ELSE redScan
                /\ greenCompare' = IF changed /\ chan = IN_B
                                     THEN ReadTable(PWM_Lookup, IndicatorStep(n), g)
                                     ELSE grnScan
                /\ lcdDac' = IF changed THEN t ELSE lcdDac
                /\ lcdStep' = IF changed THEN n ELSE lcdStep
                /\ previousNotePerfectValue' = n
                /\ lcdMilliVolts' = mv
                /\ correction' = corr
                /\ blueCompare' = IF corr THEN ReadTable(PWM_Lookup, BlueStep(n), g)
                                          ELSE blueScan
                /\ blueRunning' = corr
                /\ blueAction' = IF corr THEN "write" ELSE "stop"
                /\ indicatorWrites' =
                     (IF demo2 THEN {0} ELSE {}) \cup
                     (IF changed THEN {ReadTable(PWM_Lookup, IndicatorStep(n), g)} ELSE {})

\* the values g ranges over in an iteration that quantizes mv: a choice only
\* when the step index is past the table
Garbage(avg, r) ==
  LET d  == SlopeDiff(avg, r)
      a  == IF SlopeExceeded(d) THEN r ELSE Average(SlideSum(sum, adcCounts[index], r))
      n  == Quantize(ADC_CountsTo_mVolts(a))
  IN  IF n \in DOMAIN PWM_Lookup THEN {0} ELSE OobValues

\* an iteration that runs to the end of the loop body
Tick(busy, b0, b1, b2, r) ==
  \E g \in Garbage(averageCounts, r) : LoopBody(busy, b0, b1, b2, r, g, FALSE)

\* an iteration that ends in the fault handler
TickFault(busy, b0, b1, b2, r) == LoopBody(busy, b0, b1, b2, r, 0, TRUE)

(* ------------------------------------------------------------------ *)
(* Inputs of an iteration                                              *)
(* ------------------------------------------------------------------ *)
\* CapSense: a scan still busy (the widgets are not looked at), or a
\* finished scan with any combination of the three buttons active
ScanInputs ==
  {[busy |-> TRUE, b0 |-> FALSE, b1 |-> FALSE, b2 |-> FALSE]} \cup
  {[busy |-> FALSE, b0 |-> x, b1 |-> y, b2 |-> z] :
     x \in BOOLEAN, y \in BOOLEAN, z \in BOOLEAN}

\* a finished scan with no button touched
IdleScan == [busy |-> FALSE, b0 |-> FALSE, b1 |-> FALSE, b2 |-> FALSE]

(* ------------------------------------------------------------------ *)
(* Specification Spec: short runs, buttons and samples free            *)
(* ------------------------------------------------------------------ *)
Samples == {0 - 300, 0, 4100, 502100}

Init == \E c \in Samples : InitWith(c)

Step ==
  \E u \in ScanInputs, r \in Samples :
    ticks < MaxTicks /\ Tick(u.busy, u.b0, u.b1, u.b2, r)

Fault ==
  \E u \in ScanInputs, r \in Samples :
    ticks < MaxTicks /\ TickFault(u.busy, u.b0, u.b1, u.b2, r)

Next == Step \/ Fault

Spec == Init /\ [][Next]_vars

(* ------------------------------------------------------------------ *)
(* Specification SpecLong: the filter over more than one buffer length *)
(* No button is touched.  The sample is free in the first MaxFree      *)
(* iterations, repeats while the cursor goes round the buffer, and is  *)
(* free again in the last MaxFree iterations.                          *)
(* ------------------------------------------------------------------ *)
LongSamples == {0 - 300, 0, 700, 2000, 40000}
TailSamples == {0 - 300, 700, 2000}

LongInputs ==
  IF ticks < MaxFree THEN LongSamples
  ELSE IF ticks < MAX_SAMPLE + MaxFree THEN {result}
  ELSE TailSamples

LongStep ==
  \E r \in LongInputs :
    /\ ticks < MAX_SAMPLE + (2 * MaxFree)
    /\ Tick(IdleScan.busy, IdleScan.b0, IdleScan.b1, IdleScan.b2, r)

LongFault ==
  \E r \in LongInputs :
    /\ ticks < MAX_SAMPLE + (2 * MaxFree)
    /\ TickFault(IdleScan.busy, IdleScan.b0, IdleScan.b1, IdleScan.b2, r)

InitLong == \E c \in LongSamples : InitWith(c)

NextLong == LongStep \/ LongFault

SpecLong == InitLong /\ [][NextLong]_vars

(* ------------------------------------------------------------------ *)
(* Specification SpecHold: a constant input, no button touched         *)
(* ------------------------------------------------------------------ *)
HoldSamples == {0 - 524288, 0 - 40000, 0 - 1001, 0 - 129, 0 - 1, 0, 1, 127, 4100,
                32768, 502100, 524287}

InitHold == \E c \in HoldSamples : InitWith(c)

HoldStep ==
  /\ ticks < MAX_SAMPLE + MaxHoldExtra
  /\ Tick(IdleScan.busy, IdleScan.b0, IdleScan.b1, IdleScan.b2, result)

HoldFault ==
  /\ ticks < MAX_SAMPLE + MaxHoldExtra
  /\ TickFault(IdleScan.busy, IdleScan.b0, IdleScan.b1, IdleScan.b2, result)

NextHold == HoldStep \/ HoldFault

SpecHold == InitHold /\ [][NextHold]_vars

(* ------------------------------------------------------------------ *)
(* Specification SpecQ: the quantizer and the correction detector over *)
(* every filtered voltage of -QMvBelow .. QMvMax millivolts.  The      *)
(* filter starts settled on the ADC code of that voltage and the input *)
(* stays there.                                                        *)
(* ------------------------------------------------------------------ *)
\* an ADC code the unit converter maps to mv millivolts
CountsOf(mv) == mv * (ADC_COUNTS_PER_VOLT \div 1000)

InitQ == \E mv \in (0 - QMvBelow) .. QMvMax : InitWith(CountsOf(mv))

QStep ==
  /\ ticks < MaxQTicks
  /\ Tick(IdleScan.busy, IdleScan.b0, IdleScan.b1, IdleScan.b2, result)

QFault ==
  /\ ticks < MaxQTicks
  /\ TickFault(IdleScan.busy, IdleScan.b0, IdleScan.b1, IdleScan.b2, result)

NextQ == QStep \/ QFault

SpecQ == InitQ /\ [][NextQ]_vars

(* ------------------------------------------------------------------ *)
(* Specification SpecRange: the filter at the corners of the 20-bit    *)
(* ADC range and around the slope threshold, no button touched         *)
(* ------------------------------------------------------------------ *)
RangeSamples == {0 - 524288, 0 - 520000, 0 - 1, 0, 1000, 1001, 66036, 524287}

InitRange == \E c \in RangeSamples : InitWith(c)

RangeStep ==
  \E r \in RangeSamples :
    /\ ticks < MaxRangeTicks
    /\ Tick(IdleScan.busy, IdleScan.b0, IdleScan.b1, IdleScan.b2, r)

RangeFault ==
  \E r \in RangeSamples :
    /\ ticks < MaxRangeTicks
    /\ TickFault(IdleScan.busy, IdleScan.b0, IdleScan.b1, IdleScan.b2, r)

NextRange == RangeStep \/ RangeFault

SpecRange == InitRange /\ [][NextRange]_vars

(* ================================================================== *)
(* Properties                                                          *)
(* ================================================================== *)
\* the table indices 0 .. 60
TableIndices == 0 .. NUMBER_NOTE_PERFECT_STEPS

\* |x|
Dist(x, y) == IF x >= y THEN x - y ELSE y - x

\* the sum of f[lo] + ... + f[hi], by halving the range
RECURSIVE SumRange(_, _, _)
SumRange(f, lo, hi) ==
  IF lo > hi THEN 0
  ELSE IF lo = hi THEN f[lo]
  ELSE LET mid == (lo + hi) \div 2
       IN  SumRange(f, lo, mid) + SumRange(f, mid + 1, hi)

\* the sum of the 128 buffer slots, recomputed from the buffer
SumSlots(buf) == SumRange(buf, 0, MAX_SAMPLE - 1)

\* the sum of a sequence of samples
SumSeq(q) == SumRange(q, 1, Len(q))

\* C1: in every iteration every index used to read PWM_Lookup (primary
\* output, indicator, display, correction detector) lies in 0..60, whatever
\* millivolt value the unit converter returned.
C1_IndexInTable == \A n \in lookups : n \in TableIndices

\* C2: an iteration whose sample r differs from the current average by more
\* than SIGNAL_SLOPE, by any amount, ends with averageCounts = r, all 128
\* slots equal to r, sum = 128 * r and index = 0.
C2_SlopeReset ==
  [][ (ticks' = ticks + 1 /\ Dist(averageCounts, result') > SIGNAL_SLOPE)
        => /\ averageCounts' = result'
           /\ \A i \in 0 .. (MAX_SAMPLE - 1) : adcCounts'[i] = result'
           /\ sum' = MAX_SAMPLE * result'
           /\ index' = 0 ]_vars

\* C3: for a filtered voltage of 0..5020 mV and step n, correction is active
\* exactly when mV > PWM_Lookup[n] + 20 or mV < PWM_Lookup[n] - 20 with the
\* lower bound a signed value; at step 0 a voltage of 0..20 mV is inactive.
C3_SignedWindow ==
  (ticks > 0 /\ ~halted /\ milliVolts \in 0 .. 5020 /\ notePerfectValue \in TableIndices)
    => (correction <=> \/ milliVolts > PWM_Lookup[notePerfectValue] + 20
                       \/ milliVolts < PWM_Lookup[notePerfectValue] - 20)

\* C4: for a filtered voltage of 0..5000 mV the step chosen is the index of
\* the table entry nearest to the voltage.
C4_NearestStep ==
  (ticks > 0 /\ milliVolts \in 0 .. 5000)
    => /\ notePerfectValue \in TableIndices
       /\ \A i \in TableIndices :
            Dist(milliVolts, PWM_Lookup[notePerfectValue]) <= Dist(milliVolts, PWM_Lookup[i])

\* C5: after initialization and after every iteration, sliding update or
\* slope reset, the maintained sum equals the sum of the 128 buffer slots.
C5_RunningSum == sum = SumSlots(adcCounts)

\* C5 witness: a sliding update after the cursor went round a buffer that
\* holds different samples.
C5_Witness ==
  /\ ticks > MAX_SAMPLE
  /\ branch = "slide"
  /\ \E i \in DOMAIN adcCounts : adcCounts[i] # adcCounts[0]
  /\ sum = SumSlots(adcCounts)

\* C6: the running-sum filter agrees with the filter recomputed from scratch:
\* averageCounts = sum >> 7 = floor(S / 128), S the sum of the last 128
\* accepted samples, the sample of the initialization or of the latest slope
\* reset standing for every older window position.
C6_ReferenceFilter ==
  /\ averageCounts = sum \div 128
  /\ averageCounts = SumSeq(window) \div 128

\* C6 witness: a sliding update evicts a slot written by an earlier sliding
\* update, the window holding different samples.
C6_Witness ==
  /\ ticks > MAX_SAMPLE
  /\ branch = "slide"
  /\ \E k \in DOMAIN window : window[k] # window[1]
  /\ averageCounts = SumSeq(window) \div 128

\* C7: the filter initialized with a sample c and fed c in every later
\* iteration keeps averageCounts = c and never takes the slope reset.
C7_Convergence == averageCounts = result /\ branch # "reset"

\* C7 witness: a negative constant input, past one full round of the buffer.
C7_Witness == ticks > MAX_SAMPLE /\ result < 0 /\ averageCounts = result /\ branch = "slide"

C9_HalfStepBoundary ==
  ticks > 0 =>
    /\ milliVolts = 0 => notePerfectValue = 0
    /\ milliVolts = 41 => notePerfectValue = 0
    /\ milliVolts = 42 => notePerfectValue = 1
    /\ milliVolts = 82 => notePerfectValue = 1
    /\ milliVolts = 5000 => notePerfectValue = 60

\* C10 as stated: the table has 61 entries, starts at 0, is strictly
\* increasing and holds PWM_Lookup[i] = i * 83 exactly.
C10_TableExact ==
  /\ DOMAIN PWM_Lookup = 0 .. (NUMBER_NOTES_PER_VOLT * MAX_CONTROL_VOLTAGE)
  /\ PWM_Lookup[0] = 0
  /\ \A i \in 1 .. 60 : PWM_Lookup[i - 1] < PWM_Lookup[i]
  /\ \A i \in 0 .. 60 : PWM_Lookup[i] = i * NOTEPERFECT_STEP_SIZE_MV

\* C10 amended: the table has 61 entries, starts at 0, is strictly increasing
\* and holds PWM_Lookup[i] = i * 1000 / 12 rounded to the nearest integer, in
\* every state: no iteration writes to it.
C10_TableRounded ==
  /\ DOMAIN PWM_Lookup = 0 .. (NUMBER_NOTES_PER_VOLT * MAX_CONTROL_VOLTAGE)
  /\ PWM_Lookup[0] = 0
  /\ \A i \in 1 .. 60 : PWM_Lookup[i - 1] < PWM_Lookup[i]
  /\ \A i \in 0 .. 60 : PWM_Lookup[i] = ((i * 1000) + 6) \div 12

\* C10 witness: the table after iterations that read it, an entry that is not
\* a multiple of 83 included.
C10_Witness ==
  /\ ticks > 1
  /\ lookups # {}
  /\ PWM_Lookup[2] = 167
  /\ PWM_Lookup[60] = 5000

\* C11: in every iteration exactly one of two outcomes happens: correction is
\* active and the blue compare is set to the table value of step
\* min(stepIndex, 10) and the blue PWM started, or correction is inactive and
\* the blue PWM is reset and stopped with no compare value written; the value
\* written never exceeds PWM_Lookup[10].
C11_CorrectionOutcome ==
  ticks > 0 =>
    /\ blueAction \in {"write", "stop"}
    /\ (blueAction = "write") <=> correction
    /\ correction => /\ blueRunning
                     /\ blueCompare = PWM_Lookup[IF notePerfectValue > 10 THEN 10
                                                 ELSE notePerfectValue]
                     /\ blueCompare <= PWM_Lookup[10]
    /\ (~correction) => ~blueRunning

\* C12: every compare value written to the red or green indicator, by the loop
\* or by a button, is non-zero: PWM_Lookup[1] when the step index is 0,
\* PWM_Lookup[stepIndex] otherwise.
C12_IndicatorNeverOff ==
  notePerfectValue \in TableIndices =>
    \A v \in indicatorWrites :
      /\ v # 0
      /\ v = PWM_Lookup[IF notePerfectValue = 0 THEN 1 ELSE notePerfectValue]

\* C13: in every iteration PWM_WriteCompare is called at most once, exactly
\* when the step index differs from previousNotePerfectValue, with the value
\* PWM_Lookup[stepIndex]; at the end previousNotePerfectValue is the step
\* index; the millivolt display and the correction decision are produced in
\* every iteration.
C13_ChangeDetection ==
  [][ ticks' = ticks + 1
        => /\ primaryWritten' <=> (notePerfectValue' # previousNotePerfectValue)
           /\ primaryWritten' => /\ notePerfectValue' \in TableIndices
                                 /\ pwmCompare' = PWM_Lookup[notePerfectValue']
           /\ previousNotePerfectValue' = notePerfectValue'
           /\ lcdMilliVolts' = milliVolts'
           /\ blueAction' # "none" ]_vars

\* C14: with step index 0 (representative value 0 mV) and a window of 20 mV,
\* a filtered voltage of 10 mV, and any filtered voltage of 0..20 mV, is
\* classified "correction active".
C14_BottomWindowActive ==
  (ticks > 0 /\ notePerfectValue = 0 /\ milliVolts \in 0 .. 20)
    => (correction /\ blueAction = "write" /\ CORRECTION_WINDOW = 20
          /\ PWM_Lookup[notePerfectValue] = 0)

\* C14 witness: 10 mV is quantized to step 0 and classified active.
C14_Witness == ticks > 0 /\ milliVolts = 10 /\ notePerfectValue = 0 /\ correction

\* C15: quantizing 5000 mV yields step 60, the last table entry; quantizing
\* 5001 mV yields an index no greater than 60; neither iteration reads past
\* the end of PWM_Lookup.
C15_TopOfRange ==
  (ticks > 0 /\ milliVolts \in {5000, 5001})
    => /\ milliVolts = 5000 => notePerfectValue = 60
       /\ notePerfectValue <= 60
       /\ \A k \in lookups : k \in 0 .. 60
       /\ ~halted

\* C15 witness: 5001 mV quantized to step 60, the table read at index 60.
C15_Witness == ticks > 0 /\ milliVolts = 5001 /\ notePerfectValue = 60 /\ 60 \in lookups

\* C16: for raw samples within the 20-bit signed ADC range every value taken
\* by sum, the value after subtracting the evicted sample and the value
\* result << 7 of initialization and reset included, stays within the signed
\* 32-bit range: none exceeds 128 * 2^19 = 2^26 in magnitude.
C16_SumInRange ==
  LET lim == MAX_SAMPLE * 524288
  IN  /\ lim <= 2147483647
      /\ (0 - lim) <= sum /\ sum <= lim
      /\ (0 - lim) <= sumEvicted /\ sumEvicted <= lim
      /\ (0 - lim) <= FillSum(result) /\ FillSum(result) <= lim

\* C16 witness: the largest sum, a buffer full of the top ADC code, after a
\* sliding update at that code.
C16_Witness ==
  /\ ticks > 0
  /\ branch = "slide"
  /\ result = 524287
  /\ sum = MAX_SAMPLE * 524287
  /\ sumEvicted = (MAX_SAMPLE - 1) * 524287

\* C17: at the end of every tick the compare value of the active channel's
\* indicator (red for In_A, green for In_B) equals PWM_Lookup[max(step, 1)]
\* for that tick's step index, also after a channel switch with no change
\* of step index and in the first ticks after startup.
C17_IndicatorFollowsInput ==
  (ticks > 0 /\ ~halted /\ notePerfectValue \in TableIndices) =>
    /\ inputChannel = IN_A => redCompare = PWM_Lookup[IndicatorStep(notePerfectValue)]
    /\ inputChannel = IN_B => greenCompare = PWM_Lookup[IndicatorStep(notePerfectValue)]

\* C18: the control loop has no terminal state, and every loop iteration
\* that has read a sample completes filter update, unit conversion,
\* quantization and correction detection for it before the next sample is
\* read, whether or not the CapSense scan was busy: after every iteration
\* the loop is still running, the milli-volt value of that sample has been
\* displayed and the correction output has been either written or stopped.
C18_TickCompletes ==
  ticks > 0 =>
    /\ ~halted
    /\ milliVolts = ADC_CountsTo_mVolts(averageCounts)
    /\ lcdMilliVolts = milliVolts
    /\ blueAction \in {"write", "stop"}

\* C19: index is in 0..127 before and after every tick, so no buffer access
\* uses an index outside 0..127; a sliding update writes the new sample at
\* the slot index pointed to before the tick, leaves the other slots alone
\* and advances index by one modulo 128; a slope reset sets index to 0.
C19_WriteCursor ==
  [][ ticks' = ticks + 1
        => /\ index \in 0 .. (MAX_SAMPLE - 1)
           /\ index' \in 0 .. (MAX_SAMPLE - 1)
           /\ DOMAIN adcCounts' = 0 .. (MAX_SAMPLE - 1)
           /\ (branch' = "slide")
                => /\ adcCounts'[index] = result'
                   /\ \A i \in 0 .. (MAX_SAMPLE - 1) :
                        i # index => adcCounts'[i] = adcCounts[i]
                   /\ index' = (index + 1) % MAX_SAMPLE
           /\ (branch' = "reset") => index' = 0 ]_vars

\* C19 witness: the cursor has gone once round the buffer and a sliding
\* update has wrapped it from slot 127 back to slot 0.
C19_Witness ==
  /\ ticks >= MAX_SAMPLE
  /\ branch = "slide"
  /\ index = 0
  /\ adcCounts[MAX_SAMPLE - 1] = result

\* C20: the filter takes the reset branch only if the true difference
\* |averageCounts - r| between the average before the tick and the new
\* sample r is greater than 1000; whenever the true difference is at most
\* 1000 the sliding update is taken.
C20_NoSpuriousReset ==
  [][ ticks' = ticks + 1
        => /\ (branch' = "reset") => Dist(averageCounts, result') > SIGNAL_SLOPE
           /\ (Dist(averageCounts, result') <= SIGNAL_SLOPE) => branch' = "slide"
           /\ SIGNAL_SLOPE = 1000 ]_vars

\* C20 witness: a sliding update at a true difference of exactly 1000 (the
\* average was 1000, the sample 0) that left the average within 1000 of
\* the sample.
C20_Witness ==
  /\ ticks > 0
  /\ branch = "slide"
  /\ diff = SIGNAL_SLOPE
  /\ result = 0
  /\ sumEvicted = FillSum(1000) - 1000

\* C21: at the end of every tick either the last value written to the
\* primary output equals PWM_Lookup[stepIndex] of that tick, or the primary
\* output has never been written and the step index has been 0 in every
\* tick since startup (it was 0 before the tick and is 0 after it).
C21_PrimaryTracksStep ==
  [][ ticks' = ticks + 1
        => \/ /\ pwmCompare' # UNWRITTEN
              /\ notePerfectValue' \in TableIndices
              /\ pwmCompare' = PWM_Lookup[notePerfectValue']
           \/ /\ pwmCompare' = UNWRITTEN
              /\ pwmCompare = UNWRITTEN
              /\ notePerfectValue = 0
              /\ notePerfectValue' = 0 ]_vars

\* C22: after any sequence of CapSense scans inputChannel is IN_A or IN_B,
\* the analog mux selection equals inputChannel and exactly one of the red
\* and green indicator PWMs is running, red on IN_A and green on IN_B; the
\* channel changes to a button's input only in a scan where that button goes
\* from released to pressed, and two buttons newly pressed in one scan end
\* on IN_B.
C22_ChannelConsistency ==
  /\ [](/\ inputChannel \in {IN_A, IN_B}
        /\ muxChannel = inputChannel
        /\ redRunning <=> (inputChannel = IN_A)
        /\ greenRunning <=> (inputChannel = IN_B)
        /\ redRunning # greenRunning)
  /\ [][ ticks' = ticks + 1
           => /\ (inputChannel' # inputChannel /\ inputChannel' = IN_A)
                   => (previousButton0 = OFF /\ previousButton0' = ON)
              /\ (inputChannel' # inputChannel /\ inputChannel' = IN_B)
                   => (previousButton1 = OFF /\ previousButton1' = ON)
              /\ (previousButton0 = OFF /\ previousButton0' = ON /\
                  previousButton1 = OFF /\ previousButton1' = ON)
                   => inputChannel' = IN_B ]_vars

\* C22 witness: buttons 0 and 1 went from released to pressed in the same
\* first scan and the input ended on In_B, green running and red stopped.
C22_Witness ==
  /\ ticks = 1
  /\ previousButton0 = ON
  /\ previousButton1 = ON
  /\ inputChannel = IN_B
  /\ muxChannel = IN_B
  /\ greenRunning
  /\ ~redRunning

\* C23: every table entry is a fixed point of the quantizer: for every i in
\* 0..60 quantizing PWM_Lookup[i] millivolts returns step index i (and so
\* the representative value PWM_Lookup[i]); hence for every filtered voltage
\* in 0..5000 mV the step the loop computed is in the table and quantizing
\* its representative value gives the same step again.
C23_TableFixedPoints ==
  /\ \A i \in TableIndices :
       /\ Quantize(PWM_Lookup[i]) = i
       /\ ReadTable(PWM_Lookup, Quantize(PWM_Lookup[i]), UNWRITTEN) = PWM_Lookup[i]
  /\ (ticks > 0 /\ milliVolts \in 0 .. 5000)
       => /\ notePerfectValue \in TableIndices
          /\ Quantize(PWM_Lookup[notePerfectValue]) = notePerfectValue
          /\ notePerfectValue = Quantize(milliVolts)
  /\ (ticks > 0 /\ \E i \in TableIndices : milliVolts = PWM_Lookup[i])
       => PWM_Lookup[notePerfectValue] = milliVolts

\* C23 witness: the loop has quantized a voltage that is not a table entry
\* (4958 mV, which rounds up to step 60) and its representative value 5000
\* differs from it.
C23_Witness ==
  /\ ticks > 0
  /\ milliVolts = 4958
  /\ notePerfectValue = 60
  /\ PWM_Lookup[notePerfectValue] # milliVolts
  /\ Quantize(PWM_Lookup[notePerfectValue]) = 60

=============================================================================
